---- MODULE Spec2Model ----
(***************************************************************************)
(* A model of the bulk mail dispatcher of src/main.go: the email_queue     *)
(* table, queueEmails, sendEmails (dispatch loop, workers, progress        *)
(* listener, purge and summary) and the delivery client sendEmail.         *)
(*                                                                         *)
(* Four specifications share the module:                                   *)
(*   Spec          the whole program with job identity: a sequence of     *)
(*                 queueEmails / sendEmails calls over a small table;      *)
(*   PoolSpec      one run of sendEmails over a batch larger than the      *)
(*                 semaphore, the workers counted per program location     *)
(*                 (FairPoolSpec adds the scheduler's fairness);           *)
(*   PaceSpec      the same pool against a clock that advances in steps    *)
(*                 of emailDelay, counting the deliveries started;         *)
(*   DeliverySpec  one call of sendEmail over every script of sub-step     *)
(*                 outcomes.                                               *)
(***************************************************************************)
EXTENDS Integers, Sequences, FiniteSets

\* ------------------------------------------------------------------ bounds
\* rows ever inserted into email_queue (ids are AUTOINCREMENT, never reused)
MaxJobs == 2
\* calls of sendEmails in one behaviour of Spec
MaxRuns == 2
\* store errors (failed statements on email_queue) in one behaviour of Spec
MaxFaults == 1
\* pending rows of the one run of PoolSpec
MaxBatch == 11
\* pauses of emailDelay that PaceSpec follows the clock for
MaxTicks == 20

\* ------------------------------------------------------- program constants
\* main.go:268  concurrency := 10
concurrency == 10
\* main.go:336  for i := 0; i < 3; i++
MaxAttempts == 3
\* main.go:347  if smtpConfig.Port == 587
TLSPort == 587
\* main.go:26  emailDelay = 2 * time.Second, in seconds
emailDelay == 2
\* main.go:27  emailsPerHour = 180
emailsPerHour == 180
\* main.go:28  hourDuration = time.Hour, in seconds
hourDuration == 3600

VARIABLES
    \* ---- Spec: the program
    db,            \* email_queue: id -> "absent" | "pending" | "sent"
    nextId,        \* next AUTOINCREMENT id
    mainpc,        \* position of the UI goroutine inside sendEmails
    rows,          \* the open cursor of the SELECT: ids not yet iterated
    cur,           \* id scanned by the dispatch loop, about to be launched
    totalEmails,   \* main.go:57
    successCount,  \* main.go:55
    failureCount,  \* main.go:56
    sem,           \* number of tokens in the sem channel
    wg,            \* the WaitGroup counter
    workers,       \* goroutine number -> its record (pc, id, err, reg)
    launched,      \* goroutines started by the current run
    listener,      \* run number -> position of that run's listener goroutine
    runs,          \* calls of sendEmails so far
    progressBar,   \* last value set on the progress bar, as <<num, den>>
    resultLabel,   \* last text set on the result label
    summaryLog,    \* the last "Job completed!" line of the log (main.go:320)
    faults,        \* statements on email_queue that have failed so far
    \* ---- Spec: history of the current run
    runState,      \* how the last call of sendEmails stands: "none" (also
                   \* once rows are queued after it) | "running" | "empty" |
                   \* "aborted" | "completed"
    batch,         \* ids pending at the SELECT of the current run
    received,      \* events the current listener has taken from updateChan
    emitted,       \* goroutine number -> events it has put on updateChan
    statusWrites,  \* id -> UPDATE statements executed on it in this run
    purged,        \* the DELETE of this run: "no" | "ok" | "failed"
    \* ---- PoolSpec
    pool,
    \* ---- DeliverySpec
    call,
    \* ---- the transport configuration
    smtpConfig     \* main.go:46, filled by loadSMTPConfig

\* ======================================================== delivery client
\* The sub-steps of one attempt, in the order of main.go:338-385.
SubSteps == <<"dial", "starttls", "auth", "mail", "rcpt", "data", "write">>

\* What the transport does to one attempt: the sub-step that fails when it
\* is executed, or "none".
Outcomes == {"none"} \cup {SubSteps[k] : k \in 1..Len(SubSteps)}

\* the submission port and a port on which the connection is not upgraded
Ports == {25, TLSPort}

Scripts == [1..MaxAttempts -> Outcomes]

\* main.go:347 - StartTLS is executed only on port 587.
Executed(port, step) == step # "starttls" \/ port = TLSPort

\* The events of sub-steps k.. of one attempt: each executed sub-step, up to
\* and including the one that fails (main.go:338-389).
RECURSIVE StepsFrom(_, _, _)
StepsFrom(k, port, outcome) ==
    IF k > Len(SubSteps) THEN << >>
    ELSE IF ~Executed(port, SubSteps[k]) THEN StepsFrom(k + 1, port, outcome)
    ELSE IF SubSteps[k] = outcome THEN <<[step |-> SubSteps[k], ok |-> FALSE]>>
    ELSE <<[step |-> SubSteps[k], ok |-> TRUE]>> \o StepsFrom(k + 1, port, outcome)

Attempt(port, outcome) == StepsFrom(1, port, outcome)

AttemptOk(events) == events[Len(events)].ok

\* time.Sleep(2 * time.Second) after a failed sub-step (main.go:341 ...)
Backoff == [step |-> "sleep", ok |-> TRUE]

Nil == [kind |-> "nil", addr |-> 0]

\* main.go:395
Exhausted(rcptAddr) == [kind |-> "exhausted", addr |-> rcptAddr]

\* The retry loop with the bound of main.go:336 replaced by one attempt more.
RECURSIVE RetryLoopOffByOne(_, _, _, _, _)
RetryLoopOffByOne(i, port, rcptAddr, script, trace) ==
    IF i > MaxAttempts
    THEN [err |-> Exhausted(rcptAddr), trace |-> trace]
    ELSE LET a == Attempt(port, script[IF i < MaxAttempts THEN i + 1 ELSE MaxAttempts])
         IN  IF AttemptOk(a)
             THEN [err |-> Nil, trace |-> trace \o a]
             ELSE RetryLoopOffByOne(i + 1, port, rcptAddr, script,
                                    (trace \o a) \o <<Backoff>>)

\* main.go:336-395: for i := 0; i < 3; i++ { attempt; on failure sleep and
\* continue; on success return nil }; return the exhaustion error.
RECURSIVE RetryLoop(_, _, _, _, _)
RetryLoop(i, port, rcptAddr, script, trace) ==
    IF i >= MaxAttempts
    THEN [err |-> Exhausted(rcptAddr), trace |-> trace]
    ELSE LET a == Attempt(port, script[i + 1])
         IN  IF AttemptOk(a)
             THEN [err |-> Nil, trace |-> trace \o a]
             ELSE RetryLoop(i + 1, port, rcptAddr, script,
                            (trace \o a) \o <<Backoff>>)

\* The same client with the loop bound of main.go:336 off by one.
sendEmailOffByOne(port, rcptAddr, script) ==
    RetryLoopOffByOne(0, port, rcptAddr, script, << >>)

\* main.go:323-395
sendEmail(port, rcptAddr, script) == RetryLoop(0, port, rcptAddr, script, << >>)

\* ============================================================== the store
Ids == 1..MaxJobs
RunIds == 1..MaxRuns
Goroutines == 1..MaxJobs

\* recipient_email of row id: the address is identified with the row.
Addr(id) == id

\* SELECT ... WHERE status = 'pending' (main.go:232), in rowid order.
RECURSIVE PendingFrom(_, _)
PendingFrom(table, id) ==
    IF id > MaxJobs THEN << >>
    ELSE IF table[id] = "pending" THEN <<id>> \o PendingFrom(table, id + 1)
    ELSE PendingFrom(table, id + 1)

FetchPending(table) == PendingFrom(table, 1)

\* SELECT COUNT(*) ... WHERE status = 'pending' (main.go:241)
CountPending(table) == Cardinality({id \in Ids : table[id] = "pending"})

\* UPDATE email_queue SET status = 'sent' WHERE id = ? (main.go:297)
MarkSent(table, id) ==
    IF table[id] = "absent" THEN table ELSE [table EXCEPT ![id] = "sent"]

\* DELETE FROM email_queue (main.go:311)
DeleteAll(table) == [id \in Ids |-> "absent"]

StoreRows(table) == {id \in Ids : table[id] # "absent"}

\* ============================================================ the program
NoWorker == [pc |-> "none", id |-> 0, err |-> Nil, reg |-> 0]

Label(kind, sent, failed) == [kind |-> kind, sent |-> sent, failed |-> failed]

\* The zero value smtpConfig has until a configuration file is loaded
\* (main.go:46), and the configuration of a loaded file.
ZeroConfig == [Host |-> "", Port |-> 0]
LoadedConfig == [Host |-> "smtp.example", Port |-> TLSPort]

\* The transport scripts the pool is run against: the first `fails` attempts
\* fail at authentication, the others succeed.
FailFirst(fails) == [i \in 1..MaxAttempts |-> IF i <= fails THEN "auth" ELSE "none"]

\* What the transport does to a call made with configuration cfg: with the
\* zero configuration smtp.Dial(":0") fails in every attempt (main.go:338).
Transport(cfg, fails) ==
    IF cfg = ZeroConfig THEN [i \in 1..MaxAttempts |-> "dial"] ELSE FailFirst(fails)

progVars == <<db, nextId, mainpc, rows, cur, totalEmails, successCount,
              failureCount, sem, wg, workers, launched, listener, runs,
              progressBar, resultLabel, summaryLog, faults>>
histVars == <<runState, batch, received, emitted, statusWrites, purged>>
vars == <<progVars, histVars, pool, call, smtpConfig>>

NoSummary == [run |-> 0, sent |-> 0, failed |-> 0]
NoPool == [pc |-> "off"]
NoCall == [state |-> "off"]

InitProgram ==
    /\ db = [id \in Ids |-> "absent"]          \* main.go:85
    /\ nextId = 1
    /\ mainpc = "idle"
    /\ rows = << >>
    /\ cur = 0
    /\ totalEmails = 0
    /\ successCount = 0
    /\ failureCount = 0
    /\ sem = 0
    /\ wg = 0
    /\ workers = [g \in Goroutines |-> NoWorker]
    /\ launched = 0
    /\ listener = [r \in RunIds |-> "none"]
    /\ runs = 0
    /\ progressBar = <<0, 1>>                  \* main.go:101
    /\ resultLabel = Label("", 0, 0)           \* main.go:102
    /\ summaryLog = NoSummary
    /\ faults = 0
    /\ runState = "none"
    /\ batch = {}
    /\ received = 0
    /\ emitted = [g \in Goroutines |-> 0]
    /\ statusWrites = [id \in Ids |-> 0]
    /\ purged = "no"
    /\ smtpConfig = ZeroConfig                 \* main.go:46

Init == InitProgram /\ pool = NoPool /\ call = NoCall

\* A statement on the store succeeds, or fails with an error that the caller
\* logs; the model follows at most MaxFaults failures.
Statement(ok) ==
    /\ ok \/ faults < MaxFaults
    /\ faults' = IF ok THEN faults ELSE faults + 1

\* main.go:123-145: the callback of the file dialog; a file that cannot be
\* opened, read or parsed leaves the configuration as it was.
loadSMTPConfig(ok) ==
    /\ mainpc = "idle"
    /\ smtpConfig' = IF ok THEN LoadedConfig ELSE smtpConfig
    /\ UNCHANGED <<progVars, histVars, pool, call>>

\* The INSERT of queueEmails replaced by a statement that also puts every row
\* already in the table back to 'pending'.
queueEmailsRequeueAll(k) ==
    /\ mainpc = "idle"
    /\ nextId + k <= MaxJobs + 1
    /\ db' = [id \in Ids |-> IF id < nextId + k /\ (id >= nextId \/ db[id] # "absent")
                             THEN "pending" ELSE db[id]]
    /\ nextId' = nextId + k
    /\ resultLabel' = Label("queued", 0, 0)
    /\ runState' = "none"
    /\ UNCHANGED <<mainpc, rows, cur, totalEmails, successCount, failureCount,
                   sem, wg, workers, launched, listener, runs, progressBar,
                   summaryLog, faults, batch, received, emitted, statusWrites,
                   purged, pool, call, smtpConfig>>

\* main.go:217-228: one INSERT per loaded recipient, k recipients loaded.
queueEmails(k) ==
    /\ mainpc = "idle"
    /\ nextId + k <= MaxJobs + 1
    /\ db' = [id \in Ids |-> IF id >= nextId /\ id < nextId + k
                             THEN "pending" ELSE db[id]]
    /\ nextId' = nextId + k
    /\ resultLabel' = Label("queued", 0, 0)
    /\ runState' = "none"
    /\ UNCHANGED <<mainpc, rows, cur, totalEmails, successCount, failureCount,
                   sem, wg, workers, launched, listener, runs, progressBar,
                   summaryLog, faults, batch, received, emitted, statusWrites,
                   purged, pool, call, smtpConfig>>

\* main.go:230-238: the SELECT of a call of sendEmails. The goroutines of
\* the previous call have all returned; their records are dropped.
Query(ok) ==
    /\ mainpc = "idle"
    /\ runs < MaxRuns
    /\ Statement(ok)
    /\ runs' = runs + 1
    /\ workers' = [g \in Goroutines |-> NoWorker]
    /\ launched' = 0
    /\ received' = 0
    /\ emitted' = [g \in Goroutines |-> 0]
    /\ statusWrites' = [id \in Ids |-> 0]
    /\ purged' = "no"
    /\ cur' = 0
    /\ IF ok
       THEN /\ rows' = FetchPending(db)
            /\ batch' = {id \in Ids : db[id] = "pending"}
            /\ mainpc' = "count"
            /\ runState' = "running"
            /\ UNCHANGED resultLabel
       ELSE /\ rows' = << >>
            /\ batch' = {}
            /\ mainpc' = "idle"
            /\ runState' = "aborted"
            /\ resultLabel' = Label("fetchfailed", 0, 0)
    /\ UNCHANGED <<db, nextId, totalEmails, successCount, failureCount, sem,
                   wg, listener, progressBar, summaryLog, pool, call, smtpConfig>>

\* main.go:240-269: the COUNT, the early return on zero, and the creation of
\* the wait group, the update channel, its listener and the semaphore.
Count(ok) ==
    /\ mainpc = "count"
    /\ Statement(ok)
    /\ IF ~ok
       THEN /\ mainpc' = "idle"
            /\ rows' = << >>
            /\ runState' = "aborted"
            /\ resultLabel' = Label("countfailed", 0, 0)
            /\ UNCHANGED <<totalEmails, listener, sem, wg>>
       ELSE /\ totalEmails' = CountPending(db)
            /\ IF CountPending(db) = 0
               THEN /\ mainpc' = "idle"
                    /\ rows' = << >>
                    /\ runState' = "empty"
                    /\ resultLabel' = Label("nothing", 0, 0)
                    /\ UNCHANGED <<listener, sem, wg>>
               ELSE /\ mainpc' = "next"
                    /\ listener' = [listener EXCEPT ![runs] = "recv"]
                    /\ sem' = 0
                    /\ wg' = 0
                    /\ UNCHANGED <<rows, runState, resultLabel>>
    /\ UNCHANGED <<db, nextId, cur, successCount, failureCount, workers,
                   launched, runs, progressBar, summaryLog, batch, received,
                   emitted, statusWrites, purged, pool, call, smtpConfig>>


\* main.go:271-281: rows.Next, rows.Scan and wg.Add(1); the loop ends when the
\* cursor is exhausted. A row that fails to scan is logged and skipped
\* (main.go:276-279): no goroutine is started for it.
Next_Row(ok) ==
    /\ mainpc = "next"
    /\ IF rows = << >>
       THEN /\ ok
            /\ mainpc' = "wait"
            /\ UNCHANGED <<rows, cur, wg, faults>>
       ELSE /\ Statement(ok)
            /\ rows' = Tail(rows)
            /\ IF ok
               THEN /\ cur' = Head(rows)
                    /\ wg' = wg + 1
                    /\ mainpc' = "acquire"
               ELSE UNCHANGED <<cur, wg, mainpc>>
    /\ UNCHANGED <<db, nextId, totalEmails, successCount, failureCount, sem,
                   workers, launched, listener, runs, progressBar, resultLabel,
                   summaryLog, histVars, pool, call, smtpConfig>>

\* main.go:282-283: sem <- struct{}{} blocks while the channel holds
\* `concurrency` tokens; then the goroutine is started with the scanned id.
Launch ==
    /\ mainpc = "acquire"
    /\ sem < concurrency
    /\ sem' = sem + 1
    /\ launched' = launched + 1
    /\ workers' = [workers EXCEPT ![launched + 1] =
                       [pc |-> "send", id |-> cur, err |-> Nil, reg |-> 0]]
    /\ mainpc' = "next"
    /\ UNCHANGED <<db, nextId, rows, cur, totalEmails, successCount,
                   failureCount, wg, listener, runs, progressBar, resultLabel,
                   summaryLog, faults, runState, batch, received, emitted,
                   statusWrites, purged, pool, call, smtpConfig>>

\* Every variable but the goroutine table.
exceptWorkers == <<db, nextId, mainpc, rows, cur, totalEmails, sem, wg,
                   launched, listener, runs, progressBar, resultLabel,
                   summaryLog, faults, runState, batch, received, emitted,
                   statusWrites, purged, pool, call, smtpConfig>>

\* main.go:287-293: the call of sendEmail returns and the goroutine reads the
\* counter it is about to increment. failureCount++ and successCount++ are
\* unsynchronised read-modify-writes: the write is a later step.
Deliver(g) ==
    /\ workers[g].pc = "send"
    /\ \E fails \in 0..MaxAttempts :
          LET err == sendEmail(smtpConfig.Port, Addr(workers[g].id),
                               Transport(smtpConfig, fails)).err
          IN  workers' = [workers EXCEPT
                            ![g].err = err,
                            ![g].reg = IF err = Nil THEN successCount
                                       ELSE failureCount,
                            ![g].pc = "store"]
    /\ UNCHANGED <<exceptWorkers, successCount, failureCount>>

\* main.go:290 / 293: the write of the incremented value.
StoreCount(g) ==
    /\ workers[g].pc = "store"
    /\ IF workers[g].err = Nil
       THEN successCount' = workers[g].reg + 1 /\ UNCHANGED failureCount
       ELSE failureCount' = workers[g].reg + 1 /\ UNCHANGED successCount
    /\ workers' = [workers EXCEPT ![g].reg = 0, ![g].pc = "update"]
    /\ UNCHANGED exceptWorkers

\* main.go:296-300: the UPDATE to 'sent', whatever the delivery returned; a
\* store error is logged and the goroutine goes on.
UpdateStatus(g, ok) ==
    /\ workers[g].pc = "update"
    /\ Statement(ok)
    /\ db' = IF ok THEN MarkSent(db, workers[g].id) ELSE db
    /\ statusWrites' = [statusWrites EXCEPT ![workers[g].id] = @ + 1]
    /\ workers' = [workers EXCEPT ![g].pc = "emit"]
    /\ UNCHANGED <<nextId, mainpc, rows, cur, totalEmails, successCount,
                   failureCount, sem, wg, launched, listener, runs,
                   progressBar, resultLabel, summaryLog, runState, batch,
                   received, emitted, purged, pool, call, smtpConfig>>

\* The progress event sent only after a successful delivery.
EmitOnlyOnSuccess(g) ==
    /\ workers[g].pc = "emit"
    /\ IF workers[g].err = Nil
       THEN /\ listener[runs] = "recv"
            /\ listener' = [listener EXCEPT ![runs] = "publish"]
            /\ emitted' = [emitted EXCEPT ![g] = @ + 1]
            /\ received' = received + 1
       ELSE UNCHANGED <<listener, emitted, received>>
    /\ workers' = [workers EXCEPT ![g].pc = "sleep"]
    /\ UNCHANGED <<db, nextId, mainpc, rows, cur, totalEmails, successCount,
                   failureCount, sem, wg, launched, runs, progressBar,
                   resultLabel, summaryLog, faults, runState, batch,
                   statusWrites, purged, pool, call, smtpConfig>>

\* main.go:303 with main.go:260: updateChan is unbuffered, so the send
\* completes together with the receive of this run's listener.
Emit(g) ==
    /\ workers[g].pc = "emit"
    /\ listener[runs] = "recv"
    /\ listener' = [listener EXCEPT ![runs] = "publish"]
    /\ emitted' = [emitted EXCEPT ![g] = @ + 1]
    /\ received' = received + 1
    /\ workers' = [workers EXCEPT ![g].pc = "sleep"]
    /\ UNCHANGED <<db, nextId, mainpc, rows, cur, totalEmails, successCount,
                   failureCount, sem, wg, launched, runs, progressBar,
                   resultLabel, summaryLog, faults, runState, batch, statusWrites,
                   purged, pool, call, smtpConfig>>

\* The goroutine giving its token back as soon as the UPDATE is done, before
\* the progress event and the pause.
ReleaseBeforeEmit(g) ==
    /\ workers[g].pc = "emit"
    /\ sem' = sem - 1
    /\ workers' = [workers EXCEPT ![g].pc = "done"]
    /\ UNCHANGED <<db, nextId, mainpc, rows, cur, totalEmails, successCount,
                   failureCount, wg, launched, listener, runs, progressBar,
                   resultLabel, summaryLog, faults, histVars, pool, call, smtpConfig>>

\* main.go:304 and 285: time.Sleep(emailDelay) returns and the deferred <-sem
\* takes the goroutine's token out of the semaphore.
Release(g) ==
    /\ workers[g].pc = "sleep"
    /\ sem' = sem - 1
    /\ workers' = [workers EXCEPT ![g].pc = "done"]
    /\ UNCHANGED <<db, nextId, mainpc, rows, cur, totalEmails, successCount,
                   failureCount, wg, launched, listener, runs, progressBar,
                   resultLabel, summaryLog, faults, histVars, pool, call, smtpConfig>>

\* main.go:284: the deferred wg.Done(), after which the goroutine is gone.
Done(g) ==
    /\ workers[g].pc = "done"
    /\ wg' = wg - 1
    /\ workers' = [workers EXCEPT ![g].pc = "exit"]
    /\ UNCHANGED <<db, nextId, mainpc, rows, cur, totalEmails, successCount,
                   failureCount, sem, launched, listener, runs, progressBar,
                   resultLabel, summaryLog, faults, histVars, pool, call, smtpConfig>>

\* main.go:261-263: the body of the listener's loop, for the listener of
\* any run that has taken an event.
Publish(r) ==
    /\ listener[r] = "publish"
    /\ progressBar' = <<successCount + failureCount, totalEmails>>
    /\ resultLabel' = Label("progress", successCount, failureCount)
    /\ listener' = [listener EXCEPT ![r] = "recv"]
    /\ UNCHANGED <<db, nextId, mainpc, rows, cur, totalEmails, successCount,
                   failureCount, sem, wg, workers, launched, runs, summaryLog, faults,
                   histVars, pool, call, smtpConfig>>

\* The dispatch loop going on to the purge without waiting for the group.
WaitWithoutWaiting ==
    /\ mainpc = "wait"
    /\ mainpc' = "purge"
    /\ UNCHANGED <<db, nextId, rows, cur, totalEmails, successCount,
                   failureCount, sem, wg, workers, launched, listener, runs,
                   progressBar, resultLabel, summaryLog, faults, histVars,
                   pool, call, smtpConfig>>

\* main.go:308: wg.Wait() returns when the counter is zero.
Wait ==
    /\ mainpc = "wait"
    /\ wg = 0
    /\ mainpc' = "purge"
    /\ UNCHANGED <<db, nextId, rows, cur, totalEmails, successCount,
                   failureCount, sem, wg, workers, launched, listener, runs,
                   progressBar, resultLabel, summaryLog, faults, histVars,
                   pool, call, smtpConfig>>

\* main.go:310-314: the DELETE; a store error is logged and the run goes on.
Purge(ok) ==
    /\ mainpc = "purge"
    /\ Statement(ok)
    /\ db' = IF ok THEN DeleteAll(db) ELSE db
    /\ purged' = IF ok THEN "ok" ELSE "failed"
    /\ mainpc' = "summary"
    /\ UNCHANGED <<nextId, rows, cur, totalEmails, successCount, failureCount,
                   sem, wg, workers, launched, listener, runs, progressBar,
                   resultLabel, summaryLog, runState, batch, received,
                   emitted, statusWrites, pool, call, smtpConfig>>

\* main.go:316-321: the final bar value, label and log line, and the return.
Summary ==
    /\ mainpc = "summary"
    /\ progressBar' = <<1, 1>>
    /\ resultLabel' = Label("completed", successCount, failureCount)
    /\ summaryLog' = [run |-> runs, sent |-> successCount,
                      failed |-> failureCount]
    /\ runState' = "completed"
    /\ mainpc' = "idle"
    /\ UNCHANGED <<db, nextId, rows, cur, totalEmails, successCount,
                   failureCount, sem, wg, workers, launched, listener, runs,
                   faults, batch, received, emitted, statusWrites, purged,
                   pool, call, smtpConfig>>

Next ==
    \/ \E ok \in BOOLEAN : loadSMTPConfig(ok)
    \/ \E k \in 1..MaxJobs : queueEmails(k)
    \/ \E ok \in BOOLEAN : Query(ok)
    \/ \E ok \in BOOLEAN : Count(ok)
    \/ \E ok \in BOOLEAN : Next_Row(ok)
    \/ Launch
    \/ \E g \in Goroutines : Deliver(g)
    \/ \E g \in Goroutines : StoreCount(g)
    \/ \E g \in Goroutines, ok \in BOOLEAN : UpdateStatus(g, ok)
    \/ \E g \in Goroutines : Emit(g)
    \/ \E g \in Goroutines : Release(g)
    \/ \E g \in Goroutines : Done(g)
    \/ \E r \in RunIds : Publish(r)
    \/ Wait
    \/ \E ok \in BOOLEAN : Purge(ok)
    \/ Summary

Spec == Init /\ [][Next]_vars


\* ====================================================== claims under Spec
Launched == {g \in Goroutines : workers[g].pc # "none"}
Running == {g \in Goroutines : workers[g].pc \notin {"none", "exit"}}
WorkersOf(id) == {g \in Launched : workers[g].id = id}

RECURSIVE SumEmitted(_)
SumEmitted(g) == IF g = 0 THEN 0 ELSE emitted[g] + SumEmitted(g - 1)

\* C1: when a run has completed (workers finished, purge done, summary
\* written) the summary's success and failure counts add up to the number of
\* jobs that were pending when the run fetched them, and the store is empty.
C1_SummaryCountsBatch ==
    (runState = "completed" /\ purged = "ok") =>
        /\ summaryLog.sent + summaryLog.failed = Cardinality(batch)
        /\ StoreRows(db) = {}

\* C4: when all attempts of a delivery fail, sendEmail's error names the
\* recipient, and the step that counts the job raises failureCount by exactly
\* one and leaves successCount alone.
C4_ExhaustionCountsOneFailure ==
    [][\A g \in Goroutines :
         (/\ workers[g].pc = "store"
          /\ workers'[g].pc = "update"
          /\ workers[g].err.kind = "exhausted")
         => /\ workers[g].err = Exhausted(Addr(workers[g].id))
            /\ failureCount' = failureCount + 1
            /\ successCount' = successCount]_vars

\* C5: before the purge, a row is 'sent' only if the delivery of its job
\* succeeded, and the row of a job whose delivery was exhausted is 'pending'.
C5_SentOnlyAfterSuccess ==
    mainpc \in {"next", "acquire", "wait", "purge"} =>
        \A g \in Launched :
            workers[g].pc # "send" =>
                /\ workers[g].err.kind = "exhausted" => db[workers[g].id] = "pending"
                /\ db[workers[g].id] = "sent" => workers[g].err = Nil

\* C6: every goroutine of the pool puts exactly one event on updateChan,
\* after a success and after a failure alike; the listener takes each of them
\* once; when the run has completed it has taken as many events as goroutines
\* were launched.
C6_OneEventPerWorker ==
    /\ \A g \in Goroutines :
          /\ workers[g].pc \in {"sleep", "done", "exit"} => emitted[g] = 1
          /\ workers[g].pc \in {"none", "send", "store", "update", "emit"}
                => emitted[g] = 0
    /\ received = SumEmitted(MaxJobs)
    /\ runState = "completed" => received = launched /\ launched = Cardinality(Launched)

\* C6 witness: a completed run of two goroutines, one delivery exhausted and
\* one successful, both events taken.
C6_Witness ==
    /\ runState = "completed"
    /\ launched = 2
    /\ received = 2
    /\ \E g, h \in Launched :
          workers[g].err = Nil /\ workers[h].err.kind = "exhausted"

\* C7: the DELETE and the summary happen only when every goroutine launched
\* by the run has returned, and the DELETE comes before the summary.
C7_PurgeAfterAllWorkers ==
    /\ (mainpc \in {"purge", "summary"} \/ purged # "no" \/ runState = "completed")
          => /\ Running = {}
             /\ Cardinality(Launched) = launched
             /\ wg = 0
    /\ mainpc = "summary" => purged # "no"
    /\ runState = "completed" => purged # "no" /\ summaryLog.run = runs

\* C7 witness: the summary is about to be written after the purge of a run
\* that launched two goroutines.
C7_Witness ==
    /\ mainpc = "summary"
    /\ purged = "ok"
    /\ launched = 2
    /\ \A g \in Launched : workers[g].pc = "exit"

\* C8: a run started with no pending job launches no goroutine, attempts no
\* delivery and ends at once with the counts sent = 0 and failed = 0, also
\* after an earlier run that was not empty.
C8_EmptyRunReportsZero ==
    runState = "empty" =>
        /\ mainpc = "idle"
        /\ Launched = {}
        /\ successCount = 0
        /\ failureCount = 0

\* C10: in a run every fetched job goes to exactly one goroutine, so at most
\* one delivery per job is in progress, and exactly one UPDATE statement is
\* executed on its row (statusWrites counts the statement whether the store
\* accepts it or answers with an error), by the goroutine that processed it.
\* Once the dispatch loop has ended every job of the batch has its goroutine,
\* and when the run has completed every job of the batch has had its UPDATE.
C10_OneWorkerPerJob ==
    /\ \A g \in Launched : workers[g].id \in batch
    /\ \A id \in Ids :
          /\ Cardinality(WorkersOf(id)) <= 1
          /\ statusWrites[id] =
                Cardinality({g \in WorkersOf(id) :
                                workers[g].pc \in {"emit", "sleep", "done", "exit"}})
    /\ mainpc \in {"wait", "purge", "summary"} =>
          \A id \in batch : Cardinality(WorkersOf(id)) = 1
    /\ runState = "completed" => \A id \in batch : statusWrites[id] = 1

\* A step of a progress listener: the body of its loop (main.go:261-263).
ListenerStep == \E r \in RunIds : listener[r] = "publish" /\ listener'[r] = "recv"

\* The counter a goroutine that has read it is about to write.
Target(g) == IF workers[g].err = Nil THEN "successCount" ELSE "failureCount"

\* C11: successCount and failureCount are written only by the progress
\* listener, never by a worker, so no two control flows are ever between the
\* read and the write of the same counter.
C11_OnlyListenerWritesCounters ==
    /\ [](\A g, h \in Goroutines :
            (g # h /\ workers[g].pc = "store" /\ workers[h].pc = "store")
                => Target(g) # Target(h))
    /\ [][(successCount' # successCount \/ failureCount' # failureCount)
              => ListenerStep]_vars

\* The listener of the run in progress publishes a snapshot.
PublishesSnapshot ==
    /\ runState = "running"
    /\ listener[runs] = "publish"
    /\ listener'[runs] = "recv"

\* C12: every snapshot published during a run has 0 <= processed <= total,
\* and its processed value is not below that of the snapshot it replaces; in
\* every run of a sequence of runs.
C12_SnapshotsWithinTotal ==
    [][PublishesSnapshot =>
          /\ 0 <= progressBar'[1]
          /\ progressBar'[1] <= progressBar'[2]
          /\ resultLabel.kind = "progress" => progressBar'[1] >= progressBar[1]]_vars

\* Deliveries of the current run that returned nil / the exhaustion error.
Succeeded == {g \in Launched : workers[g].pc # "send" /\ workers[g].err = Nil}
Failed == {g \in Launched : workers[g].err.kind = "exhausted"}

\* C18: the summary of a completed run counts only the jobs of that run: its
\* sent count is not above the run's successful deliveries and its failed
\* count not above the run's exhausted deliveries, whatever earlier runs
\* counted (that no job of the run itself is missing from it is C1).
C18_SummaryCountsOnlyThisRun ==
    runState = "completed" =>
        /\ summaryLog.sent <= Cardinality(Succeeded)
        /\ summaryLog.failed <= Cardinality(Failed)

\* Listener goroutines that have been started and have not returned.
LiveListeners == {r \in RunIds : listener[r] # "none"}

\* C20: once a run has completed, no goroutine it started is alive: every
\* worker has returned and so has every progress listener.
C20_NoGoroutineOutlivesRun ==
    runState = "completed" =>
        /\ Running = {}
        /\ LiveListeners = {}

\* C14: a row's status only moves from 'pending' to 'sent': no step of the
\* program (queueEmails, a goroutine's UPDATE, the purge) takes a 'sent' row
\* back to 'pending', a row appears only as a new 'pending' row with a fresh
\* id, and the UPDATE applied to a row that is already 'sent' leaves the
\* table as it is, as does applying it twice.
C14_StatusOnlyPendingToSent ==
    /\ [](\A id \in Ids :
            /\ db[id] = "sent" => MarkSent(db, id) = db
            /\ MarkSent(MarkSent(db, id), id) = MarkSent(db, id))
    /\ [][\A id \in Ids :
            /\ db[id] = "sent" => db'[id] \in {"sent", "absent"}
            /\ (db[id] = "absent" /\ db'[id] # "absent")
                  => (db'[id] = "pending" /\ id >= nextId)
            /\ (db[id] = "pending" /\ db'[id] = "sent")
                  => \E g \in Goroutines :
                        workers[g].pc = "update" /\ workers[g].id = id]_vars

\* C14 witness: a row marked 'sent' by an earlier run (whose purge failed) is
\* still 'sent' while a later run, after a further queueEmails, has marked
\* another row.
C14_Witness ==
    /\ runs = 2
    /\ runState = "running"
    /\ \E id, jd \in Ids :
          /\ db[id] = "sent" /\ statusWrites[id] = 0
          /\ db[jd] = "sent" /\ statusWrites[jd] = 1

\* The locations of a goroutine of the pool, in program order.
Order == <<"send", "store", "update", "emit", "sleep", "done", "exit">>
Pos(pc) == CHOOSE k \in 1..Len(Order) : Order[k] = pc

\* Goroutine g moves from location `from` to location `to` in this step.
Moves(g, from, to) == workers[g].pc = from /\ workers'[g].pc = to

\* C16: each goroutine of the pool goes through its steps in the order:
\* sendEmail returns, the outcome is counted, the UPDATE is executed, the
\* progress event is handed to the listener, the pause, the token is taken
\* out of the semaphore (then wg.Done). A counter is written only by the
\* counting step, a row becomes 'sent' only by the UPDATE step, an event is
\* received only from the emitting step, and the semaphore loses a token only
\* when a goroutine whose event has been received ends its pause; a
\* goroutine is launched only by putting a token into a semaphore that is
\* not full.
C16_WorkerStepOrder ==
    [][/\ \A g \in Goroutines :
            workers'[g].pc # workers[g].pc =>
                \/ workers[g].pc \in {"none", "exit"} /\ workers'[g].pc = "none"
                \/ Moves(g, "none", "send")
                \/ /\ workers[g].pc \notin {"none", "exit"}
                   /\ workers'[g].pc # "none"
                   /\ Pos(workers'[g].pc) = Pos(workers[g].pc) + 1
       /\ (successCount' # successCount \/ failureCount' # failureCount)
             => \E g \in Goroutines : Moves(g, "store", "update")
       /\ (\E id \in Ids : db[id] # "sent" /\ db'[id] = "sent")
             => \E g \in Goroutines : Moves(g, "update", "emit")
       /\ received' > received
             => \E g \in Goroutines : Moves(g, "emit", "sleep") /\ emitted'[g] = 1
       /\ sem' < sem
             => /\ sem' = sem - 1
                /\ \E g \in Goroutines : Moves(g, "sleep", "done") /\ emitted[g] = 1
       /\ launched' > launched
             => /\ sem < concurrency
                /\ sem' = sem + 1
                /\ Moves(launched', "none", "send")]_vars

\* C16 witness: of two goroutines one has handed over its event, paused and
\* given its token back while the other still holds its own.
C16_Witness ==
    /\ launched = 2
    /\ sem = 1
    /\ \E g, h \in Launched :
          /\ workers[g].pc = "done" /\ emitted[g] = 1
          /\ workers[h].pc \in {"send", "store", "update", "emit", "sleep"}

\* Goroutines whose UPDATE was answered with a store error: the statement has
\* been executed and the row is still 'pending' before the purge.
WriteFailed ==
    {g \in Launched : /\ workers[g].pc \in {"emit", "sleep", "done", "exit"}
                      /\ purged = "no"
                      /\ db[workers[g].id] = "pending"}

\* A first run that has completed after at least one UPDATE failed: the
\* SELECT, the COUNT and the DELETE of a completed, purged run succeeded and
\* every counted row was scanned and launched, so every store error so far
\* was the answer to an UPDATE.
CompletedAfterWriteError ==
    /\ runs = 1
    /\ runState = "completed"
    /\ purged = "ok"
    /\ launched = totalEmails
    /\ faults > 0

\* C17: when the UPDATE of a job fails with a store error the goroutine
\* still hands over its one progress event, the job is still counted in
\* exactly one of successCount and failureCount, and the run still completes
\* with every goroutine's event received and every job counted.
C17_StatusWriteErrorDoesNotBlock ==
    /\ \A g \in WriteFailed :
          /\ workers[g].pc \in {"sleep", "done", "exit"} => emitted[g] = 1
          /\ workers[g].pc = "emit" => emitted[g] = 0
    /\ CompletedAfterWriteError =>
          /\ received = launched
          /\ successCount + failureCount = launched

\* C19: once the dispatch loop has ended, the total used for the progress
\* fraction equals the number of goroutines launched, and every 'pending' row
\* that the DELETE of the run removes was handed to a goroutine of that run
\* (also when a fetched row fails to scan).
C19_NoJobPurgedUnattempted ==
    /\ [](mainpc \in {"wait", "purge", "summary"} => totalEmails = launched)
    /\ [][\A id \in Ids :
            (mainpc = "purge" /\ db[id] = "pending" /\ db'[id] = "absent")
                => WorkersOf(id) # {}]_vars

\* C13: while no configuration has been loaded a call of sendEmails is
\* refused: it launches no goroutine, attempts no delivery, executes no
\* UPDATE and no DELETE, and leaves every queued row 'pending'.
C13_RunRefusedWithoutConfig ==
    smtpConfig = ZeroConfig =>
        /\ Launched = {}
        /\ \A id \in Ids : statusWrites[id] = 0 /\ db[id] # "sent"
        /\ purged = "no"

\* ================================================= one call of sendEmail
\* DeliverySpec: sendEmail is called once, on any port and against any
\* script of sub-step outcomes.
InitDelivery ==
    /\ InitProgram
    /\ pool = NoPool
    /\ \E port \in Ports, script \in Scripts :
          call = [state |-> "called", port |-> port, rcpt |-> 1,
                  script |-> script, err |-> Nil, trace |-> << >>]

\* main.go:323-395: the call returns.
Return ==
    /\ call.state = "called"
    /\ LET r == sendEmail(call.port, call.rcpt, call.script)
       IN  call' = [call EXCEPT !.state = "returned", !.err = r.err,
                                !.trace = r.trace]
    /\ UNCHANGED <<progVars, histVars, pool, smtpConfig>>

NextDelivery == Return

DeliverySpec == InitDelivery /\ [][NextDelivery]_vars


\* ===================================================== one run of the pool
\* PoolSpec: the synchronisation of one call of sendEmails (cursor, wait
\* group, semaphore, update channel) over a batch of up to MaxBatch rows. The
\* goroutines are counted per program location: `work` is main.go:287-300
\* (delivery, counter, UPDATE), `emit` main.go:303, `sleep` main.go:304 with
\* the token still held, `done` between the deferred <-sem and wg.Done().
Stages == {"work", "emit", "sleep", "done"}

InitPool ==
    /\ InitProgram
    /\ call = NoCall
    /\ \E n \in 0..MaxBatch :
          pool = [pc |-> "count", state |-> "running", rows |-> n,
                  total |-> n, sem |-> 0, wg |-> 0,
                  at |-> [st \in Stages |-> 0], exited |-> 0,
                  listener |-> "none", received |-> 0, skipped |-> 0,
                  anySuccess |-> FALSE]

PoolMove(from, to) ==
    [pool.at EXCEPT ![from] = @ - 1, ![to] = @ + 1]

\* main.go:241-269
PoolCount ==
    /\ pool.pc = "count"
    /\ pool' = IF pool.rows = 0
               THEN [pool EXCEPT !.pc = "idle", !.state = "empty"]
               ELSE [pool EXCEPT !.pc = "next", !.listener = "recv"]
    /\ UNCHANGED <<progVars, histVars, call, smtpConfig>>

\* main.go:271-281; a row that fails to scan is skipped (main.go:276-279),
\* which the pool follows for one row of the run.
PoolNextRow(ok) ==
    /\ pool.pc = "next"
    /\ ok \/ (pool.rows > 0 /\ pool.skipped = 0)
    /\ pool' = IF pool.rows = 0 THEN [pool EXCEPT !.pc = "wait"]
               ELSE IF ok
               THEN [pool EXCEPT !.pc = "acquire", !.rows = @ - 1, !.wg = @ + 1]
               ELSE [pool EXCEPT !.rows = @ - 1, !.skipped = @ + 1]
    /\ UNCHANGED <<progVars, histVars, call, smtpConfig>>

\* The goroutine started without a free slot in the semaphore.
PoolLaunchUnbounded ==
    /\ pool.pc = "acquire"
    /\ pool' = [pool EXCEPT !.pc = "next", !.sem = @ + 1,
                            !.at = [pool.at EXCEPT !["work"] = @ + 1]]
    /\ UNCHANGED <<progVars, histVars, call, smtpConfig>>

\* main.go:282-283
PoolLaunch ==
    /\ pool.pc = "acquire"
    /\ pool.sem < concurrency
    /\ pool' = [pool EXCEPT !.pc = "next", !.sem = @ + 1,
                            !.at = [pool.at EXCEPT !["work"] = @ + 1]]
    /\ UNCHANGED <<progVars, histVars, call, smtpConfig>>

\* main.go:287-300: sendEmail returns nil or the exhaustion error; the
\* counter and the UPDATE follow.
PoolDeliver(ok) ==
    /\ pool.at["work"] > 0
    /\ pool' = [pool EXCEPT !.at = PoolMove("work", "emit"),
                            !.anySuccess = @ \/ ok]
    /\ UNCHANGED <<progVars, histVars, call, smtpConfig>>

\* main.go:303 with main.go:260
PoolEmit ==
    /\ pool.at["emit"] > 0
    /\ pool.listener = "recv"
    /\ pool' = [pool EXCEPT !.at = PoolMove("emit", "sleep"),
                            !.listener = "publish", !.received = @ + 1]
    /\ UNCHANGED <<progVars, histVars, call, smtpConfig>>

\* main.go:261-263
PoolPublish ==
    /\ pool.listener = "publish"
    /\ pool' = [pool EXCEPT !.listener = "recv"]
    /\ UNCHANGED <<progVars, histVars, call, smtpConfig>>

\* The goroutine returning without taking its token out of the semaphore.
PoolReleaseKeepsToken ==
    /\ pool.at["sleep"] > 0
    /\ pool' = [pool EXCEPT !.at = PoolMove("sleep", "done")]
    /\ UNCHANGED <<progVars, histVars, call, smtpConfig>>

\* main.go:304 and 285
PoolRelease ==
    /\ pool.at["sleep"] > 0
    /\ pool' = [pool EXCEPT !.at = PoolMove("sleep", "done"), !.sem = @ - 1]
    /\ UNCHANGED <<progVars, histVars, call, smtpConfig>>

\* main.go:284
PoolDone ==
    /\ pool.at["done"] > 0
    /\ pool' = [pool EXCEPT !.at = [pool.at EXCEPT !["done"] = @ - 1],
                            !.wg = @ - 1, !.exited = @ + 1]
    /\ UNCHANGED <<progVars, histVars, call, smtpConfig>>

\* main.go:308
PoolWait ==
    /\ pool.pc = "wait"
    /\ pool.wg = 0
    /\ pool' = [pool EXCEPT !.pc = "purge"]
    /\ UNCHANGED <<progVars, histVars, call, smtpConfig>>

\* main.go:310-314
PoolPurge ==
    /\ pool.pc = "purge"
    /\ pool' = [pool EXCEPT !.pc = "summary"]
    /\ UNCHANGED <<progVars, histVars, call, smtpConfig>>

\* main.go:316-321
PoolSummary ==
    /\ pool.pc = "summary"
    /\ pool' = [pool EXCEPT !.pc = "idle", !.state = "completed"]
    /\ UNCHANGED <<progVars, histVars, call, smtpConfig>>

PoolDispatch ==
    \/ PoolCount
    \/ \E ok \in BOOLEAN : PoolNextRow(ok)
    \/ PoolLaunch
    \/ PoolWait
    \/ PoolPurge
    \/ PoolSummary

NextPool ==
    \/ PoolCount
    \/ \E ok \in BOOLEAN : PoolNextRow(ok)
    \/ PoolLaunch
    \/ \E ok \in BOOLEAN : PoolDeliver(ok)
    \/ PoolEmit
    \/ PoolPublish
    \/ PoolRelease
    \/ PoolDone
    \/ PoolWait
    \/ PoolPurge
    \/ PoolSummary

PoolSpec == InitPool /\ [][NextPool]_vars

\* The Go scheduler runs every runnable goroutine, and every call of
\* sendEmail is assumed to return.
PoolFairness ==
    /\ WF_vars(PoolDispatch)
    /\ WF_vars(\E ok \in BOOLEAN : PoolDeliver(ok))
    /\ WF_vars(PoolEmit)
    /\ WF_vars(PoolPublish)
    /\ WF_vars(PoolRelease)
    /\ WF_vars(PoolDone)

FairPoolSpec == PoolSpec /\ PoolFairness

\* ================================================== claims under PoolSpec
PoolHolders == pool.at["work"] + pool.at["emit"] + pool.at["sleep"]

\* C2: at every point of a run at most `concurrency` goroutines hold a slot
\* of the semaphore, so at most `concurrency` deliveries are in flight.
C2_AtMostConcurrencyInFlight ==
    /\ PoolHolders <= concurrency
    /\ pool.at["work"] <= concurrency
    /\ pool.sem = PoolHolders

\* C2 witness: `concurrency` deliveries are in flight and the dispatch loop
\* waits for a slot for one more row.
C2_Witness ==
    /\ pool.at["work"] = concurrency
    /\ pool.pc = "acquire"

\* C9: with fair scheduling and returning deliveries every started run ends:
\* a run over no rows returns at once, every other run gets through the
\* dispatch loop (no wait for a slot, for the listener or for the group lasts
\* forever) and writes its summary, whatever the deliveries returned.
C9_RunTerminates ==
    (pool.state = "running") ~>
        (/\ pool.pc = "idle"
         /\ pool.state = IF pool.total = 0 THEN "empty" ELSE "completed")

\* C9 witness: a run over more rows than slots has completed with every
\* delivery exhausted.
C9_Witness ==
    /\ pool.state = "completed"
    /\ ~pool.anySuccess
    /\ pool.total > concurrency
    /\ pool.exited + pool.skipped = pool.total

\* ================================================================ PaceSpec
\* PaceSpec: the pool of one call of sendEmails against a clock. The clock
\* counts pauses of emailDelay since the run began; a call of sendEmail takes
\* any whole number of them, none included; a goroutine that starts its pause
\* at one instant of the clock ends it at the next. The batch is one row
\* larger than emailsPerHour.
TicksPerHour == hourDuration \div emailDelay

InitPace ==
    /\ InitProgram
    /\ call = NoCall
    /\ pool = [pc |-> "pace", clock |-> 0, rows |-> emailsPerHour + 1,
               sem |-> 0, delivering |-> 0, sleeping |-> 0, started |-> 0]

\* main.go:271-287: the next row is scanned, a token is put into the
\* semaphore and the goroutine calls sendEmail.
PaceLaunch ==
    /\ pool.rows > 0
    /\ pool.sem < concurrency
    /\ pool' = [pool EXCEPT !.rows = @ - 1, !.sem = @ + 1,
                            !.delivering = @ + 1, !.started = @ + 1]
    /\ UNCHANGED <<progVars, histVars, call, smtpConfig>>

\* main.go:287-304: sendEmail returns, the counter, the UPDATE and the event
\* follow, and the goroutine starts time.Sleep(emailDelay).
PaceDeliver ==
    /\ pool.delivering > 0
    /\ pool' = [pool EXCEPT !.delivering = @ - 1, !.sleeping = @ + 1]
    /\ UNCHANGED <<progVars, histVars, call, smtpConfig>>

\* emailDelay passes: every goroutine in time.Sleep (main.go:304) returns
\* from it and takes its token out of the semaphore (main.go:285).
PaceTick ==
    /\ pool.clock < MaxTicks
    /\ pool' = [pool EXCEPT !.clock = @ + 1, !.sem = @ - pool.sleeping,
                            !.sleeping = 0]
    /\ UNCHANGED <<progVars, histVars, call, smtpConfig>>

NextPace ==
    \/ PaceLaunch
    \/ PaceDeliver
    \/ PaceTick

PaceSpec == InitPace /\ [][NextPace]_vars

\* ================================================== claims under PaceSpec
\* C15: the constants keep concurrency * (hourDuration / emailDelay) within
\* emailsPerHour, so within the first hour of a run the pool starts at most
\* emailsPerHour deliveries.
C15_PaceWithinEmailsPerHour ==
    pool.clock < TicksPerHour => pool.started <= emailsPerHour

\* ============================================== claims under DeliverySpec
\* An attempt with this outcome succeeds: nothing fails, or the failing
\* sub-step is one the port skips.
Succeeds(port, outcome) ==
    outcome = "none" \/ (outcome = "starttls" /\ port # TLSPort)

Occurrences(tr, step, ok) ==
    Cardinality({k \in 1..Len(tr) : tr[k].step = step /\ tr[k].ok = ok})

\* Every attempt starts by dialling.
Attempts(tr) == Occurrences(tr, "dial", TRUE) + Occurrences(tr, "dial", FALSE)

\* C3: a call makes at most 3 attempts; it returns nil at the first attempt
\* whose sub-steps all succeed and makes no attempt after it; a failed
\* sub-step ends its attempt and is followed by the backoff, and only the
\* first attempt starts without a backoff before it.
C3_BoundedRetry ==
    call.state = "returned" =>
        LET tr == call.trace
            good == {i \in 1..MaxAttempts : Succeeds(call.port, call.script[i])}
        IN  /\ Attempts(tr) <= MaxAttempts
            /\ (call.err = Nil) = (good # {})
            /\ \A i \in good :
                  (\A j \in 1..(i - 1) : j \notin good) =>
                      /\ Attempts(tr) = i
                      /\ Occurrences(tr, "write", TRUE) = 1
                      /\ tr[Len(tr)] = [step |-> "write", ok |-> TRUE]
            /\ good = {} => Attempts(tr) = MaxAttempts
            /\ \A k \in 1..Len(tr) :
                  /\ ~tr[k].ok => k < Len(tr) /\ tr[k + 1] = Backoff
                  /\ (tr[k].step = "dial" /\ k > 1) =>
                        tr[k - 1] = Backoff /\ ~tr[k - 2].ok

\* C3 witness: attempts 1 and 2 fail, attempt 3 succeeds, nil is returned.
C3_Witness ==
    /\ call.state = "returned"
    /\ ~Succeeds(call.port, call.script[1])
    /\ ~Succeeds(call.port, call.script[2])
    /\ Succeeds(call.port, call.script[3])
    /\ call.err = Nil
    /\ Attempts(call.trace) = 3

====
